---- MODULE Spec2Model ----
(***************************************************************************)
(* Model of the Binance archive acquisition pipeline of                    *)
(* src/utils/binance_data.py: the cache directory scan                     *)
(* (get_existing_dates), the concurrent download phase                     *)
(* (download_binance_data, download_and_save_csv) and the assembly of the  *)
(* per-day CSV files (get_combined_dataframe).                             *)
(*                                                                         *)
(* Dates are modelled by their ordinal (date + timedelta(days=1) is +1).   *)
(* One dataset key (symbol, interval, data_type = "klines") is modelled;   *)
(* the cache directory of that key holds at most one file per date.        *)
(*                                                                         *)
(* Four further components have a specification of their own: the path    *)
(* resolution of get_combined_dataframe and download_binance_data          *)
(* (PathSpec), StrategyModule of src/strategy/module.py (ModuleSpec),      *)
(* EMACrossBracket.on_bar (StrategySpec) and the start of run_backtest in  *)
(* src/main.py (BacktestSpec). Each leaves the others' variables alone.    *)
(***************************************************************************)
EXTENDS Integers, Sequences, FiniteSets, TLC

\* ------------------------------------------------------------------ bounds
MaxDay == 3

MaxLimit == 2

MaxCalls == 2

MaxEma == 2

\* ---------------------------------------------------------------- constants
\* download_and_save_csv(..., retries=3); no caller overrides the default.
Retries == 3

Days == 1..MaxDay

Symbol == "BTCUSDT"

Interval == "1h"

\* What the file at a destination path holds: no file, a zero-length file,
\* a prefix of the decompressed payload, or the whole payload.
Contents == {"absent", "empty", "partial", "complete"}

\* What one request can meet:
\*   "ok"        status 200, a ZIP whose first member extracts;
\*   "non200"    a status other than 200;
\*   "badzip"    an exception raised before the destination is opened: a
\*               network error in session.get / response.read, BadZipFile
\*               from zipfile.ZipFile, IndexError from namelist()[0];
\*   "badmember" status 200, a ZIP whose member fails while csv_file.read()
\*               decompresses it, i.e. after open(out_path, "wb").
Responses == {"ok", "non200", "badzip", "badmember"}

NoAsm == [status |-> "none", rows |-> <<>>]

NoPrev == [s |-> 0, e |-> 0, res |-> NoAsm]

NoExit == [code |-> -1, s |-> 0, e |-> 0]

VARIABLES
    file,           \* [Days -> Contents]: the cache directory of the key
    phase,          \* "idle" | "downloading" | "downloaded" | "finished"
    start, end,     \* the requested range of the current run
    limit,          \* max_concurrent_downloads of the current run
    missing,        \* missing_dates: the list built by download_binance_data
    pc,             \* [Days -> position of the date's download_and_save_csv]
    attempt,        \* [Days -> number of requests issued for the date]
    seen,           \* [Days -> the one kind of response the date's task has
                    \*  received so far, "mixed" after two kinds, else "none"]
    result,         \* [Days -> "none" | "True" | "False"]: the task's return
    sem,            \* the value of asyncio.Semaphore(max_concurrent_downloads)
    returned,       \* outcomes carried by download_binance_data's return value
    asm,            \* what get_combined_dataframe produced
    fullAtStart,    \* every date of the range had a file when the run began
    prev,           \* the previous run's range and assembly, kept while the
                    \* current run has the same range and began with a full cache
    lastEnd,        \* how the last run ended: "none" | "returned" | "killed"
    killedWriting,  \* the dates whose task was inside its write when killed
    startFile,      \* the cache directory as it was when the current run began
    cliExit         \* the exit of the last command-line run: its status and
                    \* the range it was asked for, while the cache is as that
                    \* run left it

\* The path resolution of one get_combined_dataframe call.
VARIABLES
    outPath,        \* the out_path download_binance_data builds for the date
    filePath        \* the file_path get_combined_dataframe reads for it

\* One StrategyModule.
VARIABLES
    services,       \* self.services: "None" or a StrategyServices object
    active,         \* activated, and not deactivated since
    hookCalls,      \* how often each _process_* hook has been entered
    lastCall        \* the last process_* call: its name, whether the module
                    \* was active, and what the call did

\* One EMACrossBracket strategy.
VARIABLES
    is_first_bar,   \* self.is_first_bar
    instrument,     \* self.instrument: "None" or the instrument of the cache
    barIn,          \* what the last on_bar found: indicators, bar, portfolio
    calls           \* the engine calls the last on_bar made, in order

\* run_backtest and the two directories it works on.
VARIABLES
    btPc,           \* position of run_backtest
    btArgs,         \* start_date, end_date, backtest_start_date of the call
    dataDir,        \* whether the directory "data" exists
    catalog,        \* the directory "catalog": "absent" | "empty" | "written"
    fsAtCall,       \* dataDir and catalog as they were when the call began
    fetched         \* get_combined_dataframe was called by the current call

dlVars == <<file, phase, start, end, limit, missing, pc, attempt, seen, result,
            sem, returned, asm, fullAtStart, prev, lastEnd, killedWriting,
            startFile, cliExit>>

pathVars == <<outPath, filePath>>

modVars == <<services, active, hookCalls, lastCall>>

stratVars == <<is_first_bar, instrument, barIn, calls>>

btVars == <<btPc, btArgs, dataDir, catalog, fsAtCall, fetched>>

auxVars == <<pathVars, modVars, stratVars, btVars>>

vars == <<dlVars, auxVars>>

\* ------------------------------------------------------------ pure helpers
Range(s) == {s[i] : i \in 1..Len(s)}

\* A file name that leaves the date out.
out_filename_NoDate(d) == <<Symbol, Interval, 0, "csv">>

\* out_filename = f"{symbol}-{interval}-{date_str}.csv"
out_filename(d) == <<Symbol, Interval, d, "csv">>

\* A scan of some other directory than the one the files are written to.
DirListing_WrongDir(f) == {}

\* The names local_path.glob(...) yields: one per file that exists.
DirListing(f) == {out_filename(d) : d \in {x \in Days : f[x] # "absent"}}

\* An existence test of the directory instead of the file.
Exists_Always(f, d) == TRUE

\* out_path.exists()
Exists(f, d) == out_filename(d) \in DirListing(f)

\* pattern.match(file.name): symbol, interval and extension are literal, the
\* date group is parsed back by strptime.
PatternMatches(n) == n[1] = Symbol /\ n[2] = Interval /\ n[4] = "csv"

get_existing_dates(f) == {n[3] : n \in {m \in DirListing(f) : PatternMatches(m)}}

\* The range scan with an exclusive end.
RECURSIVE MissingFrom_ExclusiveEnd(_, _, _)
MissingFrom_ExclusiveEnd(date, e, existing) ==
    IF date < e
    THEN (IF date \notin existing THEN <<date>> ELSE <<>>)
             \o MissingFrom_ExclusiveEnd(date + 1, e, existing)
    ELSE <<>>

\* while date <= end: if date not in existing_dates: missing_dates.append(date)
RECURSIVE MissingFrom(_, _, _)
MissingFrom(date, e, existing) ==
    IF date <= e
    THEN (IF date \notin existing THEN <<date>> ELSE <<>>)
             \o MissingFrom(date + 1, e, existing)
    ELSE <<>>

\* The tasks list: one download_and_save_csv per missing date whose out_path
\* does not exist.
TaskDates(f, m) == {d \in Range(m) : ~Exists(f, d)}

\* The rows of one day's CSV, in file order, each tagged <<day, index>>.
DayRows(d) == << <<d, 0>>, <<d, 1>> >>

\* pd.read_csv of a file: the whole payload gives the day's rows, a truncated
\* payload parses to the rows it still holds, a zero-length file raises
\* pandas.errors.EmptyDataError.
read_csv(f, d) ==
    IF f[d] = "complete" THEN DayRows(d)
    ELSE SubSeq(DayRows(d), 1, Len(DayRows(d)) - 1)

\* The combine loop putting each new frame in front of the earlier ones.
RECURSIVE CombineFrom_Prepend(_, _, _, _, _)
CombineFrom_Prepend(f, date, e, acc, n) ==
    IF date <= e
    THEN IF Exists(f, date)
         THEN IF f[date] = "empty"
              THEN [status |-> "EmptyDataError", rows |-> <<>>]
              ELSE CombineFrom_Prepend(f, date + 1, e, read_csv(f, date) \o acc, n + 1)
         ELSE CombineFrom_Prepend(f, date + 1, e, acc, n)
    ELSE IF n = 0
         THEN [status |-> "ValueError", rows |-> <<>>]
         ELSE [status |-> "ok", rows |-> acc]

\* The loop of get_combined_dataframe from `date` on, `acc` the frames read so
\* far (already concatenated), `n` their number.
RECURSIVE CombineFrom(_, _, _, _, _)
CombineFrom(f, date, e, acc, n) ==
    IF date <= e
    THEN IF Exists(f, date)
         THEN IF f[date] = "empty"
              THEN [status |-> "EmptyDataError", rows |-> <<>>]
              ELSE CombineFrom(f, date + 1, e, acc \o read_csv(f, date), n + 1)
         ELSE CombineFrom(f, date + 1, e, acc, n)
    ELSE IF n = 0
         THEN [status |-> "ValueError", rows |-> <<>>]
         ELSE [status |-> "ok", rows |-> acc]

get_combined_dataframe(f, s, e) == CombineFrom(f, s, e, <<>>, 0)

\* The record of a task's responses after one more response r.
Met(k, r) == IF k = "none" \/ k = r THEN r ELSE "mixed"

\* A limiter that admits every task.
CanAcquire_Unbounded(s) == TRUE

\* async with semaphore: a task enters only while the semaphore's value is
\* positive.
CanAcquire(s) == s > 0

\* range(1, retries): one attempt short.
HasNextAttempt_OneShort(a) == a < Retries - 1

\* for attempt in range(1, retries + 1): another attempt follows attempt a
\* iff a < retries.
HasNextAttempt(a) == a < Retries

\* A wait that returns at the first task that ends.
GatherDone_FirstCompleted(p) ==
    \/ \A d \in Days : p[d] \in {"none", "done"}
    \/ \E d \in Days : p[d] = "done"

\* asyncio.gather(*tasks) returns once every task has returned.
GatherDone(p) == \A d \in Days : p[d] \in {"none", "done"}

\* The event loop runs one coroutine at a time: between open(out_path, "wb")
\* and the end of the with-block there is no await, so no other task steps.
Quiet == \A d \in Days : pc[d] \notin {"opened", "writing"}

\* ------------------------------------------------- the other components
\* No path: the call raised before it built one.
NoPath == <<>>

PathInit ==
    /\ outPath = NoPath
    /\ filePath = NoPath

\* The three hooks a StrategyModule delegates to.
Hooks == {"_process_bar", "_process_quote_tick", "_process_trade_tick"}

NoCall == [op |-> "none", wasActive |-> FALSE, outcome |-> "none",
           hook |-> "none"]

\* StrategyModule.__init__
ModuleInit ==
    /\ services = "None"
    /\ active = FALSE
    /\ hookCalls = [h \in Hooks |-> 0]
    /\ lastCall = NoCall

NoBar == [seen |-> FALSE, initialized |-> FALSE, single_price |-> FALSE,
          fast |-> 0, slow |-> 0, net |-> 0]

\* EMACrossBracket.__init__
StrategyInit ==
    /\ is_first_bar = FALSE
    /\ instrument = "unset"
    /\ barIn = NoBar
    /\ calls = <<>>

\* backtest_start_date = None
NoneDate == 0

\* A working directory in which nothing has run yet.
BacktestInit ==
    /\ btPc = "idle"
    /\ btArgs = [s |-> 1, e |-> 1, bs |-> NoneDate]
    /\ dataDir = FALSE
    /\ catalog = "absent"
    /\ fsAtCall = [dataDir |-> FALSE, catalog |-> "absent"]
    /\ fetched = FALSE

\* ------------------------------------------------------------------- Init
NoTasks ==
    /\ pc = [d \in Days |-> "none"]
    /\ attempt = [d \in Days |-> 0]
    /\ seen = [d \in Days |-> "none"]
    /\ result = [d \in Days |-> "none"]

Init ==
    /\ file = [d \in Days |-> "absent"]
    /\ phase = "idle"
    /\ start = 1
    /\ end = 1
    /\ limit = 1
    /\ missing = <<>>
    /\ NoTasks
    /\ sem = 0
    /\ returned = {}
    /\ asm = NoAsm
    /\ fullAtStart = FALSE
    /\ prev = NoPrev
    /\ lastEnd = "none"
    /\ killedWriting = {}
    /\ startFile = [d \in Days |-> "absent"]
    /\ cliExit = NoExit
    /\ PathInit
    /\ ModuleInit
    /\ StrategyInit
    /\ BacktestInit

\* ---------------------------------------------------------------- actions
\* download_binance_data up to asyncio.gather: scan the directory, build the
\* missing list and one task per missing date.
StartRun(s, e, n) ==
    /\ phase = "idle"
    /\ start' = s
    /\ end' = e
    /\ limit' = n
    /\ fullAtStart' = \A d \in Days : (s <= d /\ d <= e) => file[d] # "absent"
    /\ prev' = IF prev.s = s /\ prev.e = e /\ fullAtStart' THEN prev ELSE NoPrev
    /\ missing' = MissingFrom(s, e, get_existing_dates(file))
    /\ attempt' = [d \in Days |-> 0]
    /\ seen' = [d \in Days |-> "none"]
    /\ result' = [d \in Days |-> "none"]
    /\ asm' = NoAsm
    /\ lastEnd' = "none"
    /\ killedWriting' = {}
    /\ startFile' = file
    /\ cliExit' = NoExit
    /\ IF missing' = <<>>
       THEN \* if not missing_dates: return
            /\ phase' = "downloaded"
            /\ pc' = [d \in Days |-> "none"]
            /\ sem' = 0
            /\ returned' = {}
       ELSE /\ phase' = "downloading"
            /\ pc' = [d \in Days |->
                        IF d \in TaskDates(file, missing') THEN "wait" ELSE "none"]
            /\ sem' = n
            /\ returned' = {}
    /\ UNCHANGED <<file, auxVars>>

\* async with semaphore, then the first session.get(url).
Acquire(d) ==
    /\ phase = "downloading"
    /\ Quiet
    /\ pc[d] = "wait"
    /\ CanAcquire(sem)
    /\ sem' = sem - 1
    /\ attempt' = [attempt EXCEPT ![d] = 1]
    /\ pc' = [pc EXCEPT ![d] = "inflight"]
    /\ UNCHANGED <<file, phase, start, end, limit, missing, seen, result,
                   returned, asm, fullAtStart, prev, lastEnd, killedWriting,
                   startFile, cliExit, auxVars>>

\* The answer to the request in flight arrives and is handled up to the next
\* await (or, for a good archive, up to open(out_path, "wb")).
Respond(d, r) ==
    /\ phase = "downloading"
    /\ Quiet
    /\ pc[d] = "inflight"
    /\ seen' = [seen EXCEPT ![d] = Met(@, r)]
    /\ CASE r = "ok" ->
              \* open(out_path, "wb") creates or truncates the file
              /\ file' = [file EXCEPT ![d] = "empty"]
              /\ pc' = [pc EXCEPT ![d] = "opened"]
         [] r = "badmember" ->
              \* the file is opened, then csv_file.read() raises
              /\ file' = [file EXCEPT ![d] = "empty"]
              /\ pc' = [pc EXCEPT ![d] = "sleep"]
         [] OTHER ->
              \* print(...) and fall through to asyncio.sleep(1)
              /\ file' = file
              /\ pc' = [pc EXCEPT ![d] = "sleep"]
    /\ UNCHANGED <<phase, start, end, limit, missing, attempt, result, sem,
                   returned, asm, fullAtStart, prev, lastEnd, killedWriting,
                   startFile, cliExit, auxVars>>

\* f.write(csv_file.read()): the payload reaches the file in pieces.
WriteChunk(d) ==
    /\ phase = "downloading"
    /\ pc[d] = "opened"
    /\ file' = [file EXCEPT ![d] = "partial"]
    /\ pc' = [pc EXCEPT ![d] = "writing"]
    /\ UNCHANGED <<phase, start, end, limit, missing, attempt, seen, result,
                   sem, returned, asm, fullAtStart, prev, lastEnd, killedWriting,
                   startFile, cliExit, auxVars>>

\* Returning True before the last piece of the payload is in the file.
FinishWrite_Truncated(d) ==
    /\ phase = "downloading"
    /\ pc[d] = "writing"
    /\ pc' = [pc EXCEPT ![d] = "done"]
    /\ result' = [result EXCEPT ![d] = "True"]
    /\ sem' = sem + 1
    /\ UNCHANGED <<file, phase, start, end, limit, missing, attempt, seen,
                   returned, asm, fullAtStart, prev, lastEnd, killedWriting,
                   startFile, cliExit, auxVars>>

\* Returning True without leaving the semaphore.
FinishWrite_NoRelease(d) ==
    /\ phase = "downloading"
    /\ pc[d] = "writing"
    /\ file' = [file EXCEPT ![d] = "complete"]
    /\ pc' = [pc EXCEPT ![d] = "done"]
    /\ result' = [result EXCEPT ![d] = "True"]
    /\ UNCHANGED <<phase, start, end, limit, missing, attempt, seen, sem,
                   returned, asm, fullAtStart, prev, lastEnd, killedWriting,
                   startFile, cliExit, auxVars>>

\* A successful write with no `return True`: the loop goes on to the sleep
\* and the next attempt.
FinishWrite_NoReturn(d) ==
    /\ phase = "downloading"
    /\ pc[d] = "writing"
    /\ file' = [file EXCEPT ![d] = "complete"]
    /\ pc' = [pc EXCEPT ![d] = "sleep"]
    /\ UNCHANGED <<phase, start, end, limit, missing, attempt, seen, result, sem,
                   returned, asm, fullAtStart, prev, lastEnd, killedWriting,
                   startFile, cliExit, auxVars>>

\* The last piece is written, the file is closed, the task returns True and
\* leaves the semaphore.
FinishWrite(d) ==
    /\ phase = "downloading"
    /\ pc[d] = "writing"
    /\ file' = [file EXCEPT ![d] = "complete"]
    /\ pc' = [pc EXCEPT ![d] = "done"]
    /\ result' = [result EXCEPT ![d] = "True"]
    /\ sem' = sem + 1
    /\ UNCHANGED <<phase, start, end, limit, missing, attempt, seen,
                   returned, asm, fullAtStart, prev, lastEnd, killedWriting,
                   startFile, cliExit, auxVars>>

\* Giving up without leaving the semaphore.
Wake_NoRelease(d) ==
    /\ phase = "downloading"
    /\ Quiet
    /\ pc[d] = "sleep"
    /\ IF HasNextAttempt(attempt[d])
       THEN /\ attempt' = [attempt EXCEPT ![d] = @ + 1]
            /\ pc' = [pc EXCEPT ![d] = "inflight"]
            /\ UNCHANGED <<result, sem>>
       ELSE /\ pc' = [pc EXCEPT ![d] = "done"]
            /\ result' = [result EXCEPT ![d] = "False"]
            /\ UNCHANGED <<attempt, sem>>
    /\ UNCHANGED <<file, phase, start, end, limit, missing, seen,
                   returned, asm, fullAtStart, prev, lastEnd, killedWriting,
                   startFile, cliExit, auxVars>>

\* asyncio.sleep(1) ends: the next attempt's request, or giving up.
Wake(d) ==
    /\ phase = "downloading"
    /\ Quiet
    /\ pc[d] = "sleep"
    /\ IF HasNextAttempt(attempt[d])
       THEN /\ attempt' = [attempt EXCEPT ![d] = @ + 1]
            /\ pc' = [pc EXCEPT ![d] = "inflight"]
            /\ UNCHANGED <<result, sem>>
       ELSE /\ pc' = [pc EXCEPT ![d] = "done"]
            /\ result' = [result EXCEPT ![d] = "False"]
            /\ sem' = sem + 1
            /\ UNCHANGED attempt
    /\ UNCHANGED <<file, phase, start, end, limit, missing, seen,
                   returned, asm, fullAtStart, prev, lastEnd, killedWriting,
                   startFile, cliExit, auxVars>>

\* gather returns, its list of results is dropped, "Download complete." is
\* printed and download_binance_data returns None.
DownloadReturn ==
    /\ phase = "downloading"
    /\ GatherDone(pc)
    /\ phase' = "downloaded"
    /\ returned' = {}
    /\ UNCHANGED <<file, start, end, limit, missing, pc, attempt, seen, result,
                   sem, asm, fullAtStart, prev, lastEnd, killedWriting,
                   startFile, cliExit, auxVars>>

\* Step 2 of get_combined_dataframe.
Assemble ==
    /\ phase = "downloaded"
    /\ asm' = get_combined_dataframe(file, start, end)
    /\ phase' = "finished"
    /\ UNCHANGED <<file, start, end, limit, missing, pc, attempt, seen, result,
                   sem, returned, fullAtStart, prev, lastEnd, killedWriting,
                   startFile, cliExit, auxVars>>

EndRun(how, p) ==
    /\ phase' = "idle"
    /\ start' = 1
    /\ end' = 1
    /\ limit' = 1
    /\ missing' = <<>>
    /\ pc' = [d \in Days |-> "none"]
    /\ attempt' = [d \in Days |-> 0]
    /\ seen' = [d \in Days |-> "none"]
    /\ result' = [d \in Days |-> "none"]
    /\ sem' = 0
    /\ returned' = {}
    /\ asm' = NoAsm
    /\ fullAtStart' = FALSE
    /\ prev' = p
    /\ lastEnd' = how
    /\ startFile' = [d \in Days |-> "absent"]
    /\ UNCHANGED <<file, auxVars>>

\* get_combined_dataframe returns (or raises) to its caller.
Exit ==
    /\ phase = "finished"
    /\ killedWriting' = {}
    /\ cliExit' = NoExit
    /\ EndRun("returned", [s |-> start, e |-> end, res |-> asm])

\* The status the interpreter exits with when the script's last statement,
\* asyncio.run(download_binance_data(...)), has returned.
ExitStatusAfterReturn == 0

\* The command line: asyncio.run(download_binance_data(...)) returns and the
\* script ends.
CliExit ==
    /\ phase = "downloaded"
    /\ killedWriting' = {}
    /\ cliExit' = [code |-> ExitStatusAfterReturn, s |-> start, e |-> end]
    /\ EndRun("returned", NoPrev)

\* The process is killed during the download phase.
Kill ==
    /\ phase = "downloading"
    /\ killedWriting' = {d \in Days : pc[d] \in {"opened", "writing"}}
    /\ cliExit' = NoExit
    /\ EndRun("killed", NoPrev)

\* Between two runs a cached file is removed by hand.
DeleteFile(d) ==
    /\ phase = "idle"
    /\ file[d] # "absent"
    /\ file' = [file EXCEPT ![d] = "absent"]
    /\ cliExit' = NoExit
    /\ UNCHANGED <<phase, start, end, limit, missing, pc, attempt, seen, result,
                   sem, returned, asm, fullAtStart, prev, lastEnd, killedWriting,
                   startFile, auxVars>>

Next ==
    \/ \E s \in Days, e \in Days, n \in 1..MaxLimit : StartRun(s, e, n)
    \/ \E d \in Days : Acquire(d)
    \/ \E d \in Days, r \in Responses : Respond(d, r)
    \/ \E d \in Days : WriteChunk(d)
    \/ \E d \in Days : FinishWrite(d)
    \/ \E d \in Days : Wake(d)
    \/ DownloadReturn
    \/ Assemble
    \/ Exit
    \/ CliExit
    \/ Kill
    \/ \E d \in Days : DeleteFile(d)

Spec == Init /\ [][Next]_vars

\* Command-line runs that are left to finish: the download phase with no
\* kill. The event loop runs every ready coroutine, every request is answered
\* by a response or an error, and every sleep ends.
LiveNext ==
    \/ \E s \in Days, e \in Days, n \in 1..MaxLimit : StartRun(s, e, n)
    \/ \E d \in Days : Acquire(d)
    \/ \E d \in Days, r \in Responses : Respond(d, r)
    \/ \E d \in Days : WriteChunk(d)
    \/ \E d \in Days : FinishWrite(d)
    \/ \E d \in Days : Wake(d)
    \/ DownloadReturn
    \/ CliExit

LiveFairness ==
    /\ \A d \in Days : WF_vars(Acquire(d))
    /\ \A d \in Days : WF_vars(\E r \in Responses : Respond(d, r))
    /\ \A d \in Days : WF_vars(WriteChunk(d))
    /\ \A d \in Days : WF_vars(FinishWrite(d))
    /\ \A d \in Days : WF_vars(Wake(d))
    /\ WF_vars(DownloadReturn)

LiveSpec == Init /\ [][LiveNext]_vars /\ LiveFairness

\* ------------------------------------------------------- path resolution
\* The values get_combined_dataframe is called with and hands on to
\* download_binance_data. "trades" stands for a data_type the download
\* rejects, "" for an interval that is falsy.
DataTypes == {"klines", "bookTicker", "trades"}

Intervals == {"", "1h", "1d"}

Symbols == {"BTCUSDT", "ETHUSDT"}

Instruments == {"futures", "spot"}

Markets == {"um", "cm"}

\* The two checks download_binance_data makes before it builds a path.
Accepts(data_type, interval) ==
    /\ data_type \in {"klines", "bookTicker"}
    /\ ~(data_type = "klines" /\ interval = "")

\* pathlib's dir / name: joining the empty string leaves the directory.
Join(dir, name) == IF name = "" THEN dir ELSE Append(dir, name)

\* project_root / data_dir, the same directory on both sides:
\* get_combined_dataframe hands its absolute data_path on as output_dir.
data_path == <<"src", "data", "binance">>

\* local_path of download_binance_data.
download_local_path(instr, market, data_type, symbol, interval) ==
    IF data_type = "klines" /\ interval # ""
    THEN Join(Join(Join(Join(Join(Join(data_path, instr), market), "daily"),
                   data_type), symbol), interval)
    ELSE Join(Join(Join(Join(Join(data_path, instr), market), "daily"),
              data_type), symbol)

\* out_filename of download_binance_data, for any data_type.
download_out_filename(data_type, symbol, interval, d) ==
    IF data_type = "klines"
    THEN <<symbol, interval, d, "csv">>
    ELSE <<symbol, d, "csv">>

\* out_path = local_path / out_filename
download_out_path(instr, market, data_type, symbol, interval, d) ==
    Append(download_local_path(instr, market, data_type, symbol, interval),
           download_out_filename(data_type, symbol, interval, d))

\* file_path of get_combined_dataframe: local_path / filename.
combined_file_path(instr, market, data_type, symbol, interval, d) ==
    Append(Join(Join(Join(Join(Join(Join(data_path, instr), market), "daily"),
                     data_type), symbol), interval),
           <<symbol, interval, d, "csv">>)

\* One get_combined_dataframe call, followed for one date of its range: the
\* download builds the date's out_path, the combine loop its file_path. A
\* call the download rejects raises ValueError and builds neither.
ResolvePaths(instr, market, data_type, symbol, interval, d) ==
    /\ IF Accepts(data_type, interval)
       THEN /\ outPath' = download_out_path(instr, market, data_type, symbol,
                                            interval, d)
            /\ filePath' = combined_file_path(instr, market, data_type, symbol,
                                              interval, d)
       ELSE /\ outPath' = NoPath
            /\ filePath' = NoPath
    /\ UNCHANGED <<dlVars, modVars, stratVars, btVars>>

PathNext ==
    \E instr \in Instruments, market \in Markets, data_type \in DataTypes,
       symbol \in Symbols, interval \in Intervals, d \in Days :
        ResolvePaths(instr, market, data_type, symbol, interval, d)

PathSpec == Init /\ [][PathNext]_vars

\* ------------------------------------------------------- StrategyModule
\* The StrategyServices objects a module can be activated with.
Services == {"services1", "services2"}

activate(sv) ==
    /\ services' = sv
    /\ active' = TRUE
    /\ UNCHANGED <<hookCalls, lastCall>>
    /\ UNCHANGED <<dlVars, pathVars, stratVars, btVars>>

\* A deactivate that forgets to drop the services.
deactivate_KeepServices ==
    /\ active' = FALSE
    /\ UNCHANGED <<services, hookCalls, lastCall>>
    /\ UNCHANGED <<dlVars, pathVars, stratVars, btVars>>

deactivate ==
    /\ services' = "None"
    /\ active' = FALSE
    /\ UNCHANGED <<hookCalls, lastCall>>
    /\ UNCHANGED <<dlVars, pathVars, stratVars, btVars>>

\* process_bar: raise ValueError when self.services is None, else enter
\* the hook _process_bar.
process_bar ==
    /\ services = "None" \/ hookCalls["_process_bar"] < MaxCalls
    /\ IF services = "None"
       THEN /\ lastCall' = [op |-> "process_bar", wasActive |-> active,
                            outcome |-> "ValueError", hook |-> "none"]
            /\ UNCHANGED hookCalls
       ELSE /\ lastCall' = [op |-> "process_bar", wasActive |-> active,
                            outcome |-> "delegated", hook |-> "_process_bar"]
            /\ hookCalls' = [hookCalls EXCEPT !["_process_bar"] = @ + 1]
    /\ UNCHANGED <<services, active>>
    /\ UNCHANGED <<dlVars, pathVars, stratVars, btVars>>

\* process_quote_tick
process_quote_tick ==
    /\ services = "None" \/ hookCalls["_process_quote_tick"] < MaxCalls
    /\ IF services = "None"
       THEN /\ lastCall' = [op |-> "process_quote_tick", wasActive |-> active,
                            outcome |-> "ValueError", hook |-> "none"]
            /\ UNCHANGED hookCalls
       ELSE /\ lastCall' = [op |-> "process_quote_tick", wasActive |-> active,
                            outcome |-> "delegated", hook |-> "_process_quote_tick"]
            /\ hookCalls' = [hookCalls EXCEPT !["_process_quote_tick"] = @ + 1]
    /\ UNCHANGED <<services, active>>
    /\ UNCHANGED <<dlVars, pathVars, stratVars, btVars>>

\* process_trade_tick
process_trade_tick ==
    /\ services = "None" \/ hookCalls["_process_trade_tick"] < MaxCalls
    /\ IF services = "None"
       THEN /\ lastCall' = [op |-> "process_trade_tick", wasActive |-> active,
                            outcome |-> "ValueError", hook |-> "none"]
            /\ UNCHANGED hookCalls
       ELSE /\ lastCall' = [op |-> "process_trade_tick", wasActive |-> active,
                            outcome |-> "delegated", hook |-> "_process_trade_tick"]
            /\ hookCalls' = [hookCalls EXCEPT !["_process_trade_tick"] = @ + 1]
    /\ UNCHANGED <<services, active>>
    /\ UNCHANGED <<dlVars, pathVars, stratVars, btVars>>

ModuleNext ==
    \/ \E sv \in Services : activate(sv)
    \/ deactivate
    \/ process_bar
    \/ process_quote_tick
    \/ process_trade_tick

ModuleSpec == Init /\ [][ModuleNext]_vars

\* ------------------------------------------------------- EMACrossBracket
\* The values the two EMA indicators can show.
EmaValues == 0..MaxEma

\* The sign of the portfolio's net position in the instrument.
NetPositions == {-1, 0, 1}

InstrumentId == "BTCUSDT-PERP"

\* on_start: look the instrument up in the cache; without it the strategy
\* stops before it subscribes to bars.
on_start(found) ==
    /\ instrument = "unset"
    /\ instrument' = IF found THEN InstrumentId ELSE "None"
    /\ UNCHANGED <<is_first_bar, barIn, calls>>
    /\ UNCHANGED <<dlVars, pathVars, modVars, btVars>>

\* self.portfolio.is_flat(instrument_id)
is_flat(net) == net = 0

\* A test of the wrong side.
is_net_short_WrongSide(net) == net > 0

\* self.portfolio.is_net_short(instrument_id)
is_net_short(net) == net < 0

\* self.portfolio.is_net_long(instrument_id)
is_net_long(net) == net > 0

\* buy(bar): a bracket order list on the buy side, if an instrument is loaded.
buy(inst) == IF inst = "None" THEN <<"log_error">> ELSE <<"submit_buy">>

\* sell(bar)
sell(inst) == IF inst = "None" THEN <<"log_error">> ELSE <<"submit_sell">>

\* The engine calls on_bar makes, in order.
OnBarCalls(initialized, single_price, fast, slow, net, inst) ==
    IF ~initialized THEN <<>>
    ELSE IF single_price THEN <<>>
    ELSE IF fast >= slow
         THEN IF is_flat(net)
              THEN <<"cancel_all_orders">> \o buy(inst)
              ELSE IF is_net_short(net)
                   THEN <<"close_all_positions", "cancel_all_orders">>
                        \o buy(inst)
                   ELSE <<>>
    ELSE IF fast < slow
         THEN IF is_flat(net)
              THEN <<"cancel_all_orders">> \o sell(inst)
              ELSE IF is_net_long(net)
                   THEN <<"close_all_positions", "cancel_all_orders">>
                        \o sell(inst)
                   ELSE <<>>
    ELSE <<>>

\* on_bar, for a bar delivered to a strategy that has subscribed.
on_bar(initialized, single_price, fast, slow, net) ==
    /\ instrument = InstrumentId
    /\ is_first_bar' = TRUE
    /\ barIn' = [seen |-> TRUE, initialized |-> initialized,
                 single_price |-> single_price, fast |-> fast, slow |-> slow,
                 net |-> net]
    /\ calls' = OnBarCalls(initialized, single_price, fast, slow, net,
                           instrument)
    /\ UNCHANGED instrument
    /\ UNCHANGED <<dlVars, pathVars, modVars, btVars>>

StrategyNext ==
    \/ \E found \in BOOLEAN : on_start(found)
    \/ \E initialized \in BOOLEAN, single_price \in BOOLEAN,
          fast \in EmaValues, slow \in EmaValues, net \in NetPositions :
            on_bar(initialized, single_price, fast, slow, net)

StrategySpec == Init /\ [][StrategyNext]_vars

\* ---------------------------------------------------------- run_backtest
\* start <= backtest_start <= end
InRange(s, bs, e) == s <= bs /\ bs <= e

\* A run_backtest that creates the data directory before it validates.
run_backtest_LateValidation(s, e, bs) ==
    /\ btPc \in {"idle", "raised", "failed", "done"}
    /\ btArgs' = [s |-> s, e |-> e, bs |-> bs]
    /\ fsAtCall' = [dataDir |-> dataDir, catalog |-> catalog]
    /\ fetched' = FALSE
    /\ dataDir' = TRUE
    /\ btPc' = IF bs # NoneDate /\ ~InRange(s, bs, e)
               THEN "raised" ELSE "validated"
    /\ UNCHANGED catalog
    /\ UNCHANGED <<dlVars, pathVars, modVars, stratVars>>

\* The call of run_backtest and its validation of backtest_start_date.
run_backtest(s, e, bs) ==
    /\ btPc \in {"idle", "raised", "failed", "done"}
    /\ btArgs' = [s |-> s, e |-> e, bs |-> bs]
    /\ fsAtCall' = [dataDir |-> dataDir, catalog |-> catalog]
    /\ fetched' = FALSE
    /\ btPc' = IF bs # NoneDate /\ ~InRange(s, bs, e)
               THEN "raised" ELSE "validated"
    /\ UNCHANGED <<dataDir, catalog>>
    /\ UNCHANGED <<dlVars, pathVars, modVars, stratVars>>

\* data_dir.mkdir(exist_ok=True)
MkDataDir ==
    /\ btPc = "validated"
    /\ dataDir' = TRUE
    /\ btPc' = "data_dir"
    /\ UNCHANGED <<btArgs, catalog, fsAtCall, fetched>>
    /\ UNCHANGED <<dlVars, pathVars, modVars, stratVars>>

\* shutil.rmtree(catalog_path) if it exists, then catalog_path.mkdir()
ResetCatalog ==
    /\ btPc = "data_dir"
    /\ catalog' = "empty"
    /\ btPc' = "catalog"
    /\ UNCHANGED <<btArgs, dataDir, fsAtCall, fetched>>
    /\ UNCHANGED <<dlVars, pathVars, modVars, stratVars>>

\* await get_combined_dataframe(...): it returns the frame or raises.
LoadData(ok) ==
    /\ btPc = "catalog"
    /\ fetched' = TRUE
    /\ btPc' = IF ok THEN "loaded" ELSE "failed"
    /\ UNCHANGED <<btArgs, dataDir, catalog, fsAtCall>>
    /\ UNCHANGED <<dlVars, pathVars, modVars, stratVars>>

\* catalog.write_data(...) and the rest of the run.
WriteCatalog ==
    /\ btPc = "loaded"
    /\ catalog' = "written"
    /\ btPc' = "done"
    /\ UNCHANGED <<btArgs, dataDir, fsAtCall, fetched>>
    /\ UNCHANGED <<dlVars, pathVars, modVars, stratVars>>

BacktestNext ==
    \/ \E s \in Days, e \in Days, bs \in Days \cup {NoneDate} :
          run_backtest(s, e, bs)
    \/ MkDataDir
    \/ ResetCatalog
    \/ \E ok \in BOOLEAN : LoadData(ok)
    \/ WriteCatalog

BacktestSpec == Init /\ [][BacktestNext]_vars

TypeOK ==
    /\ file \in [Days -> Contents]
    /\ phase \in {"idle", "downloading", "downloaded", "finished"}
    /\ start \in Days /\ end \in Days /\ limit \in 1..MaxLimit
    /\ pc \in [Days -> {"none", "wait", "inflight", "opened", "writing", "sleep", "done"}]
    /\ attempt \in [Days -> 0..Retries]
    /\ seen \in [Days -> Responses \cup {"none", "mixed"}]
    /\ result \in [Days -> {"none", "True", "False"}]
    /\ sem \in 0..MaxLimit
    /\ lastEnd \in {"none", "returned", "killed"}
    /\ killedWriting \subseteq Days
    /\ startFile \in [Days -> Contents]
    /\ cliExit \in [code : {-1, ExitStatusAfterReturn}, s : 0..MaxDay, e : 0..MaxDay]
    /\ services \in Services \cup {"None"}
    /\ active \in BOOLEAN
    /\ hookCalls \in [Hooks -> 0..MaxCalls]
    /\ is_first_bar \in BOOLEAN
    /\ instrument \in {"unset", "None", InstrumentId}
    /\ btPc \in {"idle", "raised", "validated", "data_dir", "catalog",
                 "loaded", "failed", "done"}
    /\ dataDir \in BOOLEAN
    /\ catalog \in {"absent", "empty", "written"}
    /\ fetched \in BOOLEAN


\* ------------------------------------------------------------------ claims
\* The dates whose task holds a slot of the limiter: from its first request
\* to its return.
InFlight == {d \in Days : pc[d] \in {"inflight", "opened", "writing", "sleep"}}

TaskDays == {d \in Days : pc[d] # "none"}

\* C1: during the download phase at most `limit` tasks are in flight.
C1_ConcurrencyBound ==
    phase = "downloading" => Cardinality(InFlight) <= limit

C1_Witness ==
    /\ phase = "downloading"
    /\ Cardinality(InFlight) = limit
    /\ \E d \in Days : pc[d] = "wait"

\* C2: the file at a destination path is always either absent or the whole
\* decompressed payload.
C2_DestinationAbsentOrComplete ==
    \A d \in Days : file[d] \in {"absent", "complete"}

\* C3: after a kill, no date whose task was inside its write has a
\* zero-length or truncated file at its destination, and the next run's
\* missing-day computation over that date reports it missing.
C3_KillLeavesDateMissing ==
    lastEnd = "killed" =>
        \A d \in killedWriting :
            /\ file[d] \notin {"empty", "partial"}
            /\ d \in Range(MissingFrom(d, d, get_existing_dates(file)))

\* C4: when a date of the requested range has no artifact after the download
\* phase, assembly fails; it never returns a dataset.
C4_NoGappedDataset ==
    (/\ phase = "finished"
     /\ \E d \in Days : start <= d /\ d <= end /\ file[d] = "absent")
        => asm.status \notin {"ok"}

\* C5: a task that only ever met non-200 answers issues at most Retries
\* requests and writes no file; when it ends it has issued exactly Retries
\* requests and returns False.
C5_Non200ExactlyRetries ==
    \A d \in Days :
        seen[d] = "non200" =>
            /\ attempt[d] <= Retries
            /\ file[d] = "absent"
            /\ result[d] # "True"
            /\ pc[d] = "done" => (attempt[d] = Retries /\ result[d] = "False")

C5_Witness ==
    \E d \in Days : pc[d] = "done" /\ seen[d] = "non200" /\ result[d] = "False"

\* C6: when the download phase has returned, every task has run to its end,
\* and every date whose requests were all answered by a good archive has its
\* complete artifact in the cache, whatever happened to the other dates.
C6_FailureIsolated ==
    phase \in {"downloaded", "finished"} =>
        \A d \in TaskDays :
            /\ pc[d] = "done"
            /\ attempt[d] >= 1
            /\ seen[d] = "ok" => (file[d] = "complete" /\ result[d] = "True")

C6_Witness ==
    /\ phase = "downloaded"
    /\ \E d \in TaskDays : result[d] = "False" /\ attempt[d] = Retries
    /\ \E d \in TaskDays : seen[d] = "ok" /\ file[d] = "complete"

\* C7: the value the download phase returns holds exactly one outcome for
\* every date of the missing list.
C7_OneOutcomePerMissingDate ==
    phase = "downloaded" =>
        \A d \in Range(missing) : Cardinality({o \in returned : o.date = d}) = 1

\* C8: a run that begins with a file for every date of its range issues no
\* request and creates no task, changes no file, and assembles what the
\* previous run over the same range assembled.
C8_RerunIsNoOp ==
    /\ [](fullAtStart /\ phase # "idle" =>
            \A d \in Days : attempt[d] = 0 /\ pc[d] = "none")
    /\ [][fullAtStart /\ phase # "idle" => file' = file]_vars
    /\ [](phase = "finished" /\ prev # NoPrev => asm = prev.res)

C8_Witness ==
    /\ phase = "finished"
    /\ fullAtStart
    /\ prev # NoPrev
    /\ start < end
    /\ asm.status = "ok"
    /\ asm = prev.res

\* C9: before any fetch has begun, the missing list is strictly ascending and
\* holds exactly the dates of [start, end] that have no file.
C9_MissingDatesExact ==
    (/\ phase \in {"downloading", "downloaded"}
     /\ \A d \in Days : attempt[d] = 0)
        => /\ \A i, j \in 1..Len(missing) : i < j => missing[i] < missing[j]
           /\ Range(missing) =
                 {d \in Days : start <= d /\ d <= end /\ file[d] = "absent"}

C9_Witness ==
    /\ phase = "downloading"
    /\ \A d \in Days : attempt[d] = 0
    /\ Len(missing) >= 2
    /\ \E d \in Days : start < d /\ d < end /\ file[d] # "absent"
    /\ missing[Len(missing)] = end

\* C10: a date whose file is zero-length or truncated is not reported as
\* present by the directory scan.
C10_TruncatedNotPresent ==
    \A d \in Days :
        file[d] \in {"empty", "partial"} => d \notin get_existing_dates(file)

\* C11: a run whose start date is after its end date does not proceed: the
\* download phase neither starts nor returns normally, and the assembly ends
\* with InvalidRange.
C11_InvertedRangeRejected ==
    (phase # "idle" /\ start > end) =>
        /\ phase \notin {"downloading", "downloaded"}
        /\ asm.status = "InvalidRange"

\* The rows a complete cache holds for the dates s..e, last day last.
RECURSIVE RowsOfDays(_, _)
RowsOfDays(s, e) == IF s > e THEN <<>> ELSE RowsOfDays(s, e - 1) \o DayRows(e)

\* Row a is not later than row b: rows are tagged <<day, index in the day>>.
NotLater(a, b) == a[1] < b[1] \/ (a[1] = b[1] /\ a[2] <= b[2])

\* C12: when every date of the range has its complete artifact, assembly
\* succeeds with the days' rows in ascending date order and file order: as
\* many rows as the days hold together, non-decreasing in timestamp.
C12_FullRangeAssembles ==
    (/\ phase = "finished"
     /\ start <= end
     /\ \A d \in Days : (start <= d /\ d <= end) => file[d] = "complete")
        => /\ asm.status = "ok"
           /\ asm.rows = RowsOfDays(start, end)
           /\ Len(asm.rows) = (end - start + 1) * Len(DayRows(start))
           /\ \A i, j \in 1..Len(asm.rows) :
                 i < j => NotLater(asm.rows[i], asm.rows[j])

C12_Witness ==
    /\ phase = "finished"
    /\ start < end
    /\ \A d \in Days : (start <= d /\ d <= end) => file[d] = "complete"
    /\ asm.status = "ok"
    /\ Len(asm.rows) >= 4

\* C13: the command-line run exits with status 0 exactly when every date of
\* the requested range ended up with a file in the cache.
C13_ExitCodeTellsFailure ==
    (cliExit # NoExit /\ lastEnd = "returned") =>
        (cliExit.code = 0 <=>
            \A d \in Days : (cliExit.s <= d /\ d <= cliExit.e) => file[d] # "absent")

\* C14: a download phase that has started ends: gather returns normally, and
\* by then every task has run to its end after 1..Retries requests with an
\* outcome of True or False, and every slot of the limiter is free again.
C14_RunCompletes ==
    /\ (phase = "downloading") ~> (phase = "downloaded")
    /\ [](phase = "downloaded" /\ missing # <<>> =>
            /\ sem = limit
            /\ \A d \in Range(missing) :
                  /\ pc[d] = "done"
                  /\ attempt[d] >= 1 /\ attempt[d] <= Retries
                  /\ result[d] \in {"True", "False"})

C14_Witness ==
    /\ phase = "downloaded"
    /\ Len(missing) > limit
    /\ sem = limit
    /\ \E d \in Range(missing) : result[d] = "False"
    /\ \E d \in Range(missing) : result[d] = "True"

\* The dates of the requested range that had no file when the run began.
AbsentAtStart == {d \in Days : start <= d /\ d <= end /\ startFile[d] = "absent"}

\* C15: a date that had a file when the run began gets no task and no
\* request, and its file stays as it was.
C15_ExistingDateSkipped ==
    phase # "idle" =>
        \A d \in Days :
            startFile[d] # "absent" =>
                pc[d] = "none" /\ attempt[d] = 0 /\ file[d] = startFile[d]

C15_Witness ==
    /\ phase = "downloaded"
    /\ \E d \in Days : start <= d /\ d <= end /\ startFile[d] = "complete"
                       /\ pc[d] = "none" /\ file[d] = "complete"
    /\ \E d \in Days : attempt[d] >= 1

\* C16: the dates of the missing list are written to pairwise distinct paths,
\* and so are the dates of any two tasks in flight.
C16_DistinctDestinations ==
    phase = "downloading" =>
        /\ \A i, j \in 1..Len(missing) :
              i # j => out_filename(missing[i]) # out_filename(missing[j])
        /\ \A d, d2 \in InFlight :
              d # d2 => out_filename(d) # out_filename(d2)

C16_Witness ==
    /\ phase = "downloading"
    /\ Cardinality(InFlight) >= 2
    /\ \E d \in InFlight : pc[d] = "writing"

\* C17: the tasks of a run are exactly the dates of its range that had no
\* file when it began, whatever earlier runs or deletions left behind, and
\* when the download phase has returned exactly those dates were requested.
C17_FetchesExactlyAbsent ==
    /\ phase # "idle" => TaskDays = AbsentAtStart
    /\ phase \in {"downloaded", "finished"} =>
          {d \in Days : attempt[d] >= 1} = AbsentAtStart

C17_Witness ==
    /\ phase = "downloaded"
    /\ Cardinality(AbsentAtStart) >= 2
    /\ \E d \in Days : start < d /\ d < end /\ startFile[d] # "absent"
    /\ \A d \in AbsentAtStart : attempt[d] >= 1

\* C18 as stated: while a task is suspended in a request or in the delay
\* between attempts, no slot of the limiter is held.
C18_NoSlotAcrossSuspension ==
    (phase = "downloading" /\ \E d \in Days : pc[d] \in {"inflight", "sleep"})
        => sem = limit

\* C18 amended: the limiter's slot is the one lock a task holds, and it holds
\* it from its first request to its return, across every request, write and
\* delay: the slots taken are exactly those of the tasks in flight.
C18_SlotHeldWhileInFlight ==
    phase = "downloading" => limit - sem = Cardinality(InFlight)

C18_Witness ==
    /\ phase = "downloading"
    /\ \E d \in Days : pc[d] = "sleep" /\ attempt[d] = Retries
    /\ \E d \in Days : pc[d] = "done"
    /\ sem < limit

\* C19: a task that only ever met malformed archives issues at most Retries
\* requests, ends with False after exactly Retries, and leaves no file at the
\* date's destination.
C19_MalformedLeavesNoFile ==
    \A d \in Days :
        seen[d] \in {"badzip", "badmember"} =>
            /\ attempt[d] <= Retries
            /\ file[d] = "absent"
            /\ pc[d] = "done" => (attempt[d] = Retries /\ result[d] = "False")

\* C20: within a run, a task's attempt number only ever grows by one, the
\* first request leaves Pending, a later one follows a failed attempt (the
\* task is in its delay, has not returned and has written no complete file),
\* success is returned only out of a write, and a task that has returned
\* stays as it is.
C20_RetryStateMachine ==
    [][(phase # "idle" /\ phase' # "idle") =>
         \A d \in Days :
            /\ attempt'[d] = attempt[d] \/ attempt'[d] = attempt[d] + 1
            /\ (attempt'[d] = attempt[d] + 1 /\ attempt[d] = 0) => pc[d] = "wait"
            /\ (attempt'[d] = attempt[d] + 1 /\ attempt[d] > 0) =>
                  (pc[d] = "sleep" /\ result[d] = "none" /\ file[d] # "complete")
            /\ (result'[d] = "True" /\ result[d] = "none") => pc[d] = "writing"
            /\ pc[d] = "done" =>
                  (pc'[d] = "done" /\ attempt'[d] = attempt[d]
                      /\ result'[d] = result[d] /\ result[d] # "none")]_vars

C20_Witness ==
    /\ \E d \in Days : pc[d] = "done" /\ result[d] = "True" /\ attempt[d] = 2
    /\ \E d \in Days : pc[d] = "done" /\ result[d] = "False" /\ attempt[d] = Retries

\* C21: a task that has returned True, at whichever attempt 1..Retries its
\* success came and whatever its earlier attempts met, has the whole payload
\* at its destination: nothing of a failed attempt's file remains.
C21_SuccessAfterFailures ==
    \A d \in Days :
        (phase # "idle" /\ result[d] = "True") =>
            /\ pc[d] = "done"
            /\ attempt[d] >= 1 /\ attempt[d] <= Retries
            /\ seen[d] \in {"ok", "mixed"}
            /\ file[d] = "complete"

C21_Witness ==
    \E d \in Days :
        /\ result[d] = "True"
        /\ attempt[d] = Retries
        /\ seen[d] = "mixed"
        /\ file[d] = "complete"

\* C22: a task is in its delay only between two attempts: whenever it
\* sleeps, another attempt is still to come.
C22_DelayOnlyBetweenAttempts ==
    \A d \in Days : pc[d] = "sleep" => attempt[d] < Retries

\* C23: for every accepted data_type and every date, the path the combine
\* loop reads is the path the download writes.
C23_ReadPathIsWritePath ==
    outPath # NoPath => filePath = outPath

\* C24: the process_* methods raise ValueError exactly when the module is
\* not active and otherwise enter their own hook; services is set exactly
\* while the module is active.
C24_ModuleGate ==
    /\ (services # "None") <=> active
    /\ lastCall.op # "none" =>
        /\ (lastCall.outcome = "ValueError") <=> ~lastCall.wasActive
        /\ (lastCall.outcome = "delegated") <=> lastCall.wasActive
        /\ lastCall.hook =
             IF ~lastCall.wasActive THEN "none"
             ELSE IF lastCall.op = "process_bar" THEN "_process_bar"
             ELSE IF lastCall.op = "process_quote_tick"
                  THEN "_process_quote_tick"
             ELSE "_process_trade_tick"

\* A call that raised on a module that had been active and delegating before.
C24_Witness ==
    /\ lastCall.outcome = "ValueError"
    /\ ~active
    /\ \E h \in Hooks : hookCalls[h] > 0

Submissions(c) == {i \in 1..Len(c) : c[i] \in {"submit_buy", "submit_sell"}}

Before(c, i, what) == \E j \in 1..(i - 1) : c[j] = what

\* C25: one on_bar submits at most one bracket order list, none before the
\* indicators are initialised or on a single-price bar; a buy only with
\* fast >= slow and a flat or net short portfolio, a sell only with
\* fast < slow and a flat or net long portfolio, after cancelling all orders
\* and, when reversing, closing all positions; nothing when the position
\* already points the signal's way.
C25_OnBarOrders ==
    barIn.seen =>
        /\ Cardinality(Submissions(calls)) <= 1
        /\ (~barIn.initialized \/ barIn.single_price) =>
               Submissions(calls) = {}
        /\ \A i \in 1..Len(calls) :
            /\ calls[i] = "submit_buy" =>
                /\ barIn.fast >= barIn.slow
                /\ barIn.net <= 0
                /\ i = Len(calls)
                /\ Before(calls, i, "cancel_all_orders")
                /\ barIn.net < 0 => Before(calls, i, "close_all_positions")
            /\ calls[i] = "submit_sell" =>
                /\ barIn.fast < barIn.slow
                /\ barIn.net >= 0
                /\ i = Len(calls)
                /\ Before(calls, i, "cancel_all_orders")
                /\ barIn.net > 0 => Before(calls, i, "close_all_positions")
        /\ (barIn.fast >= barIn.slow /\ barIn.net > 0) => calls = <<>>
        /\ (barIn.fast < barIn.slow /\ barIn.net < 0) => calls = <<>>

\* A reversal from net short to a buy at equal averages.
C25_Witness ==
    /\ barIn.seen
    /\ barIn.fast = barIn.slow
    /\ barIn.net < 0
    /\ calls = <<"close_all_positions", "cancel_all_orders", "submit_buy">>

\* C26: a backtest_start_date outside [start_date, end_date] raises before
\* any side effect: both directories are as the call found them and nothing
\* was fetched; inside the range, or None, the run goes on.
C26_ValidationFirst ==
    /\ btPc = "raised" =>
        /\ btArgs.bs # NoneDate
        /\ btArgs.bs < btArgs.s \/ btArgs.bs > btArgs.e
        /\ dataDir = fsAtCall.dataDir
        /\ catalog = fsAtCall.catalog
        /\ ~fetched
    /\ btPc \notin {"idle", "raised"} =>
        \/ btArgs.bs = NoneDate
        \/ btArgs.s <= btArgs.bs /\ btArgs.bs <= btArgs.e

\* A rejected call in a directory that holds an earlier run's catalog.
C26_Witness ==
    /\ btPc = "raised"
    /\ catalog = "written"
    /\ fsAtCall.catalog = "written"

====
